---- MODULE Spec2Model ----
(***************************************************************************)
(* A model of Go_LogDB's commit log: the store (length-prefixed frames     *)
(* behind a buffered writer), the index (memory-mapped table of 12-byte    *)
(* entries), the segment binding the two, and the log that rolls segments. *)
(* Files are sequences of bytes; machine integers keep a (scaled) width.   *)
(***************************************************************************)
EXTENDS Integers, Sequences, FiniteSets, TLC

VARIABLES cfg, st, stHist, ix, ixHist, ixRet,
          segments, dir, isOpen, policy, hist, fails, ret,
          mu, lmu, pcs, closed, ctx

storeVars == <<st, stHist>>
indexVars == <<ix, ixHist, ixRet>>
logVars == <<segments, dir, isOpen, policy, hist, fails, ret>>
procVars == <<mu, lmu, pcs, closed, ctx>>
vars == <<cfg, storeVars, indexVars, logVars, procVars>>

(***************************************************************************)
(* Machine integers.  TLC's integers are 32 bits wide, so the widths of    *)
(* uint32 and uint64/int64 are scaled down: uint32 is Bits32 bits wide and *)
(* uint64 Bits64 bits wide.  All conversions wrap as Go's do.              *)
(***************************************************************************)
Bits32 == 4
Bits64 == 8
W32 == 2 ^ Bits32
W64 == 2 ^ Bits64

uint32(x) == x % W32
uint64(x) == x % W64
\* int64(x) of a uint64: the same bits read as two's complement.
int64(x) == IF (x % W64) >= W64 \div 2 THEN (x % W64) - W64 ELSE x % W64

(***************************************************************************)
(* Bytes and big-endian encoding (enc = binary.BigEndian).                 *)
(***************************************************************************)
RECURSIVE PutUint(_, _)
\* The w-byte big-endian encoding of n.
PutUint(n, w) == IF w = 0 THEN <<>> ELSE PutUint(n \div 256, w - 1) \o <<n % 256>>

RECURSIVE Uint(_)
\* The number a big-endian byte sequence encodes.
Uint(b) == IF b = <<>> THEN 0 ELSE Uint(SubSeq(b, 1, Len(b) - 1)) * 256 + b[Len(b)]

Zeros(n) == [k \in 1..n |-> 0]

\* os.Truncate: cut the file, or extend it with zero bytes.
Truncate(f, n) == IF n <= Len(f) THEN SubSeq(f, 1, n) ELSE f \o Zeros(n - Len(f))

lenWidth == 8
offWidth == 4
posWidth == 8
entWidth == offWidth + posWidth

(***************************************************************************)
(* The store: a file opened O_APPEND behind a bufio.Writer of BufSize      *)
(* bytes.  A store is [file, buf, size]: the bytes on disk, the bytes      *)
(* still in the writer's buffer, and the logical size.                     *)
(***************************************************************************)
BufSize == 12

newStore(f) == [file |-> f, buf |-> <<>>, size |-> Len(f)]

RECURSIVE bufWrite(_, _)
\* bufio.Writer.Write(p): while p does not fit, either write it through (empty
\* buffer) or fill the buffer and flush it; then buffer the rest.
bufWrite(s, p) ==
  IF Len(p) > BufSize - Len(s.buf)
  THEN IF Len(s.buf) = 0
       THEN [s EXCEPT !.file = s.file \o p]
       ELSE LET n == BufSize - Len(s.buf)
            IN  bufWrite([s EXCEPT !.file = s.file \o s.buf \o SubSeq(p, 1, n),
                                   !.buf = <<>>],
                         SubSeq(p, n + 1, Len(p)))
  ELSE [s EXCEPT !.buf = s.buf \o p]

bufFlush(s) == [s EXCEPT !.file = s.file \o s.buf, !.buf = <<>>]

\* store.Append(p): the frame is the 8-byte length then p; returns the bytes
\* written and the size before the write.
storeAppend(s, p) ==
  LET s1 == bufWrite(bufWrite(s, PutUint(Len(p), lenWidth)), p)
      w  == Len(p) + lenWidth
  IN  [s |-> [s1 EXCEPT !.size = uint64(s.size + w)],
       n |-> w, pos |-> s.size, err |-> "nil"]

\* File.ReadAt(b, off) with len(b) = n: the bytes, or io.EOF on a short read.
fileReadAt(f, off, n) ==
  IF n = 0 THEN [b |-> <<>>, err |-> "nil"]
  ELSE IF off + n <= Len(f) THEN [b |-> SubSeq(f, off + 1, off + n), err |-> "nil"]
  ELSE [b |-> <<>>, err |-> "EOF"]

\* storeRead with a fault: the positional reads are made without flushing.
storeReadNoFlush(s, pos) ==
  LET size == fileReadAt(s.file, pos, lenWidth)
  IN  IF size.err # "nil" THEN [s |-> s, b |-> <<>>, err |-> size.err]
      ELSE LET b == fileReadAt(s.file, pos + lenWidth, Uint(size.b))
           IN  IF b.err # "nil" THEN [s |-> s, b |-> <<>>, err |-> b.err]
               ELSE [s |-> s, b |-> b.b, err |-> "nil"]

\* store.Read(pos): flush, read the 8-byte length at pos, then that many bytes.
storeRead(s, pos) ==
  LET s1   == bufFlush(s)
      size == fileReadAt(s1.file, pos, lenWidth)
  IN  IF size.err # "nil" THEN [s |-> s1, b |-> <<>>, err |-> size.err]
      ELSE LET b == fileReadAt(s1.file, pos + lenWidth, Uint(size.b))
           IN  IF b.err # "nil" THEN [s |-> s1, b |-> <<>>, err |-> b.err]
               ELSE [s |-> s1, b |-> b.b, err |-> "nil"]

\* store.Close: flush the buffer (the descriptor is then closed).
storeClose(s) == bufFlush(s)

(***************************************************************************)
(* Config (config.go) and the index: a file pre-extended to MaxIndexBytes  *)
(* and mapped MAP_SHARED, so the mapped bytes are the file's bytes.  An    *)
(* index is [mmap, size]: the mapped bytes and the logical size.           *)
(***************************************************************************)
Config(maxStore, maxIndex, initial) ==
  [MaxStoreBytes |-> maxStore, MaxIndexBytes |-> maxIndex, InitialOffset |-> initial]

NoConfig == Config(0, 0, 0)
NoRes == [mapped |-> FALSE, fd |-> FALSE, truncMapped |-> FALSE]
NoIndex == [open |-> FALSE, i |-> [mmap |-> <<>>, size |-> 0], file |-> <<>>,
            res |-> NoRes]
NoRet == [op |-> "none"]

\* newIndex(f, c): the size is the file's length; the file is then truncated
\* to MaxIndexBytes and mapped.
newIndex(f, c) == [mmap |-> Truncate(f, c.MaxIndexBytes), size |-> Len(f)]

\* The resources of an index: whether its memory map is mapped, whether its
\* file descriptor is open, and whether the file was truncated while mapped.
\* newIndex opens both.
newIndexRes == [mapped |-> TRUE, fd |-> TRUE, truncMapped |-> FALSE]

\* The calls index.Close makes, in order.
indexCloseCalls == <<"mmap.Sync", "file.Sync", "file.Truncate", "file.Close">>

RECURSIVE runCalls(_, _)
\* The resources after a sequence of calls: only an unmap releases the map,
\* only a close releases the descriptor.
runCalls(res, calls) ==
  IF calls = <<>> THEN res
  ELSE LET c == Head(calls)
           r == IF c = "mmap.UnsafeUnmap" THEN [res EXCEPT !.mapped = FALSE]
                ELSE IF c = "file.Truncate" THEN [res EXCEPT !.truncMapped = res.mapped]
                ELSE IF c = "file.Close" THEN [res EXCEPT !.fd = FALSE]
                ELSE res
       IN  runCalls(r, Tail(calls))

indexCloseRes(res) == runCalls(res, indexCloseCalls)

\* indexClose with a fault: the file is left at its mapped length.
indexCloseNoTruncate(i) == i.mmap

\* index.Close: sync, truncate the file to the logical size, close it.
\* The result is the file left on disk.
indexClose(i) == Truncate(i.mmap, i.size)

\* indexIsMaxed with a fault: the comparison is off by one entry.
indexIsMaxedLate(i) == Len(i.mmap) < i.size

indexIsMaxed(i) == Len(i.mmap) < i.size + entWidth

\* index.Read(off), off an int64: -1 is the last entry; the slot is converted
\* to uint32 before it is bounds-checked.
indexRead(i, off) ==
  IF i.size = 0 THEN [out |-> 0, pos |-> 0, err |-> "EOF"]
  ELSE LET out == IF off = -1 THEN uint32(uint64((i.size \div entWidth) - 1))
                  ELSE uint32(off)
           startingPos == out * entWidth
       IN  IF i.size < startingPos + entWidth
           THEN [out |-> 0, pos |-> 0, err |-> "EOF"]
           ELSE [out |-> Uint(SubSeq(i.mmap, startingPos + 1, startingPos + offWidth)),
                 pos |-> Uint(SubSeq(i.mmap, startingPos + offWidth + 1,
                                     startingPos + entWidth)),
                 err |-> "nil"]

\* The mapped bytes with b written at byte offset at (0-based).
mmapPut(m, at, b) ==
  [k \in 1..Len(m) |-> IF k > at /\ k <= at + Len(b) THEN b[k - at] ELSE m[k]]

\* indexWrite with a fault: the entry is always written at slot 0.
indexWriteAtZero(i, off, pos) ==
  IF indexIsMaxed(i) THEN [i |-> i, err |-> "EOF"]
  ELSE [i |-> [mmap |-> mmapPut(i.mmap, 0,
                                PutUint(off, offWidth) \o PutUint(pos, posWidth)),
               size |-> i.size + entWidth],
        err |-> "nil"]

\* index.Write(off, pos): io.EOF when maxed, else the entry is encoded at the
\* logical size, which advances by entWidth.
indexWrite(i, off, pos) ==
  IF indexIsMaxed(i) THEN [i |-> i, err |-> "EOF"]
  ELSE [i |-> [mmap |-> mmapPut(i.mmap, i.size,
                                PutUint(off, offWidth) \o PutUint(pos, posWidth)),
               size |-> i.size + entWidth],
        err |-> "nil"]

(***************************************************************************)
(* Records and their serialization.  A Record is [value, offset]           *)
(* (message Record: bytes value = 1; uint64 offset = 2).  proto.Marshal    *)
(* writes the proto3 wire format: a field holding its zero value is left   *)
(* out; value is tag 10, a varint length and the bytes; offset is tag 16   *)
(* and a varint.                                                           *)
(***************************************************************************)
Record(value, offset) == [value |-> value, offset |-> offset]

RECURSIVE Varint(_)
Varint(n) == IF n < 128 THEN <<n>> ELSE <<128 + (n % 128)>> \o Varint(n \div 128)

RECURSIVE ReadVarint(_)
\* The varint at the head of p: its value, its width, and whether it ends.
ReadVarint(p) ==
  IF p = <<>> THEN [v |-> 0, n |-> 0, ok |-> FALSE]
  ELSE IF p[1] < 128 THEN [v |-> p[1], n |-> 1, ok |-> TRUE]
  ELSE LET r == ReadVarint(Tail(p))
       IN  [v |-> (p[1] - 128) + 128 * r.v, n |-> r.n + 1, ok |-> r.ok]

Marshal(r) ==
  (IF r.value # <<>> THEN <<10>> \o Varint(Len(r.value)) \o r.value ELSE <<>>)
  \o (IF r.offset # 0 THEN <<16>> \o Varint(r.offset) ELSE <<>>)

RECURSIVE parseFields(_, _)
parseFields(p, r) ==
  IF p = <<>> THEN [rec |-> r, err |-> "nil"]
  ELSE LET v    == ReadVarint(Tail(p))
           rest == SubSeq(p, 2 + v.n, Len(p))
       IN  IF ~v.ok THEN [rec |-> r, err |-> "Serialization"]
           ELSE IF p[1] = 16 THEN parseFields(rest, [r EXCEPT !.offset = v.v])
           ELSE IF p[1] = 10 /\ v.v <= Len(rest)
                THEN parseFields(SubSeq(rest, v.v + 1, Len(rest)),
                                 [r EXCEPT !.value = SubSeq(rest, 1, v.v)])
           ELSE [rec |-> r, err |-> "Serialization"]

Unmarshal(p) == parseFields(p, Record(<<>>, 0))

(***************************************************************************)
(* The segment: [store, index, baseOffset, nextOffset, config].            *)
(***************************************************************************)
NoFiles == [store |-> <<>>, index |-> <<>>]

\* newSegment(dir, baseOffset, c) over the two files named after baseOffset.
newSegment(files, baseOffset, c) ==
  LET index == newIndex(files.index, c)
      last  == indexRead(index, -1)
  IN  [store |-> newStore(files.store), index |-> index,
       baseOffset |-> baseOffset,
       nextOffset |-> IF last.err # "nil" THEN baseOffset
                      ELSE uint64(baseOffset + last.out + 1),
       config |-> c]

\* segmentAppend with a fault: the record keeps the offset the caller gave it.
segmentAppendNoStamp(s, record) ==
  LET cur == s.nextOffset
      a   == storeAppend(s.store, Marshal(record))
      w   == indexWrite(s.index, uint32(uint64(s.nextOffset - s.baseOffset)), a.pos)
  IN  IF w.err # "nil"
      THEN [s |-> [s EXCEPT !.store = a.s], off |-> 0, err |-> w.err]
      ELSE [s |-> [s EXCEPT !.store = a.s, !.index = w.i,
                            !.nextOffset = uint64(cur + 1)],
            off |-> cur, err |-> "nil"]

\* segmentAppend with a fault: the offset returned is read after the increment.
segmentAppendReturnsNext(s, record) ==
  LET cur == s.nextOffset
      a   == storeAppend(s.store, Marshal([record EXCEPT !.offset = cur]))
      w   == indexWrite(s.index, uint32(uint64(s.nextOffset - s.baseOffset)), a.pos)
  IN  IF w.err # "nil"
      THEN [s |-> [s EXCEPT !.store = a.s], off |-> 0, err |-> w.err]
      ELSE [s |-> [s EXCEPT !.store = a.s, !.index = w.i,
                            !.nextOffset = uint64(cur + 1)],
            off |-> uint64(cur + 1), err |-> "nil"]

\* segmentAppend with a fault: the next offset advances before the index write
\* is known to have succeeded.
segmentAppendEager(s, record) ==
  LET cur == s.nextOffset
      a   == storeAppend(s.store, Marshal([record EXCEPT !.offset = cur]))
      w   == indexWrite(s.index, uint32(uint64(s.nextOffset - s.baseOffset)), a.pos)
  IN  IF w.err # "nil"
      THEN [s |-> [s EXCEPT !.store = a.s, !.nextOffset = uint64(cur + 1)],
            off |-> 0, err |-> w.err]
      ELSE [s |-> [s EXCEPT !.store = a.s, !.index = w.i,
                            !.nextOffset = uint64(cur + 1)],
            off |-> cur, err |-> "nil"]

\* segment.Append(record): stamp the record with nextOffset, marshal it,
\* append it to the store, write (relative offset, pos) to the index.  The
\* store keeps the frame when the index write fails.
segmentAppend(s, record) ==
  LET cur == s.nextOffset
      a   == storeAppend(s.store, Marshal([record EXCEPT !.offset = cur]))
      w   == indexWrite(s.index, uint32(uint64(s.nextOffset - s.baseOffset)), a.pos)
  IN  IF w.err # "nil"
      THEN [s |-> [s EXCEPT !.store = a.s], off |-> 0, err |-> w.err]
      ELSE [s |-> [s EXCEPT !.store = a.s, !.index = w.i,
                            !.nextOffset = uint64(cur + 1)],
            off |-> cur, err |-> "nil"]

NoRecord == Record(<<>>, 0)

\* segment.Read(off): the index entry at slot int64(off - baseOffset), then
\* the frame at its position, unmarshalled.
segmentRead(s, off) ==
  LET e == indexRead(s.index, int64(uint64(off - s.baseOffset)))
  IN  IF e.err # "nil" THEN [s |-> s, rec |-> NoRecord, pos |-> 0, err |-> e.err]
      ELSE LET p  == storeRead(s.store, e.pos)
               s1 == [s EXCEPT !.store = p.s]
           IN  IF p.err # "nil"
               THEN [s |-> s1, rec |-> NoRecord, pos |-> e.pos, err |-> p.err]
               ELSE [s |-> s1, rec |-> Unmarshal(p.b).rec, pos |-> e.pos,
                     err |-> Unmarshal(p.b).err]

\* segmentIsMaxed with a fault: only the store's size is looked at.
segmentIsMaxedStoreOnly(s) == s.store.size >= s.config.MaxStoreBytes

segmentIsMaxed(s) ==
  \/ s.store.size >= s.config.MaxStoreBytes
  \/ s.index.size + entWidth > s.config.MaxIndexBytes

\* segment.Close: the index is closed, then the store; the result is the two
\* files left on disk.
segmentClose(s) ==
  [store |-> storeClose(s.store).file, index |-> indexClose(s.index)]

(***************************************************************************)
(* The log: the list of segments, the last of which is active.  Append     *)
(* routes to the active segment and rolls it when it is maxed, either      *)
(* checked before the write or after it (policy); a new segment's base     *)
(* offset is the log's next offset.  Read delegates to the segment that    *)
(* covers the offset.  Close closes every segment; open rebuilds the       *)
(* segments from the directory's files in base-offset order.               *)
(***************************************************************************)
activeSegment(segs) == segs[Len(segs)]

lowestOffset(segs) == segs[1].baseOffset
nextOffset(segs) == activeSegment(segs).nextOffset

\* The log's roll before the write: a maxed active segment is followed by a
\* fresh one.
rollBefore(segs, pol) ==
  IF pol = "before" /\ segmentIsMaxed(activeSegment(segs))
  THEN Append(segs, newSegment(NoFiles, nextOffset(segs), activeSegment(segs).config))
  ELSE segs

rollAfter(segs, pol) ==
  IF pol = "after" /\ segmentIsMaxed(activeSegment(segs))
  THEN Append(segs, newSegment(NoFiles, nextOffset(segs), activeSegment(segs).config))
  ELSE segs

logAppend(segs, record, pol) ==
  LET segs1 == rollBefore(segs, pol)
      a     == activeSegment(segs1)
      r     == segmentAppend(a, record)
      segs2 == [segs1 EXCEPT ![Len(segs1)] = r.s]
  IN  [segs |-> IF r.err = "nil" THEN rollAfter(segs2, pol) ELSE segs2,
       off |-> r.off, err |-> r.err,
       base |-> a.baseOffset, onMaxed |-> segmentIsMaxed(a), at |-> Len(segs1)]

\* A variant of logRead that asks the first segment whose base offset is not
\* above the offset, whatever its next offset.
logReadNoUpperBound(segs, off) ==
  LET cover == {i \in 1..Len(segs) : segs[i].baseOffset <= off}
  IN  IF cover = {}
      THEN [segs |-> segs, rec |-> NoRecord, err |-> "OffsetOutOfRange"]
      ELSE LET i == CHOOSE i \in cover : \A j \in cover : i <= j
               r == segmentRead(segs[i], off)
           IN  [segs |-> [segs EXCEPT ![i] = r.s], rec |-> r.rec, err |-> r.err]

logRead(segs, off) ==
  LET cover == {i \in 1..Len(segs) :
                  segs[i].baseOffset <= off /\ off < segs[i].nextOffset}
  IN  IF cover = {}
      THEN [segs |-> segs, rec |-> NoRecord, err |-> "OffsetOutOfRange"]
      ELSE LET i == CHOOSE i \in cover : \A j \in cover : i <= j
               r == segmentRead(segs[i], off)
           IN  [segs |-> [segs EXCEPT ![i] = r.s], rec |-> r.rec, err |-> r.err]

\* The directory after close: the files of every segment under its base offset.
logClose(segs) ==
  {[base |-> segs[i].baseOffset, files |-> segmentClose(segs[i])] : i \in 1..Len(segs)}

RECURSIVE openSorted(_, _)
openSorted(d, c) ==
  IF d = {} THEN <<>>
  ELSE LET f == CHOOSE f \in d : \A g \in d : f.base <= g.base
       IN  <<newSegment(f.files, f.base, c)>> \o openSorted(d \ {f}, c)

logOpen(d, c) ==
  IF d = {} THEN <<newSegment(NoFiles, c.InitialOffset, c)>> ELSE openSorted(d, c)

\* No process runs: the mutexes are free and the context is live.
NoProcs ==
  /\ mu = 0
  /\ lmu = 0
  /\ pcs = <<>>
  /\ closed = FALSE
  /\ ctx = "live"

NoStoreVars == st = newStore(<<>>) /\ stHist = <<>>
NoIndexVars == ix = NoIndex /\ ixHist = <<>> /\ ixRet = NoRet
NoLog ==
  /\ segments = <<>>
  /\ dir = {}
  /\ isOpen = FALSE
  /\ policy = "none"
  /\ hist = <<>>
  /\ fails = 0
  /\ ret = NoRet

(***************************************************************************)
(* The store alone: appends of arbitrary byte strings and reads.           *)
(***************************************************************************)
MaxStoreAppends == 3
StorePayloads == {<<>>, <<1>>, <<2, 3>>, <<0, 0, 0, 0, 0, 0, 0, 1, 9>>}

StoreInit ==
  /\ cfg = NoConfig
  /\ st = newStore(<<>>)
  /\ stHist = <<>>
  /\ ix = NoIndex
  /\ ixHist = <<>>
  /\ ixRet = NoRet
  /\ NoLog
  /\ NoProcs

StoreAppend ==
  /\ Len(stHist) < MaxStoreAppends
  /\ \E p \in StorePayloads :
       LET r == storeAppend(st, p)
       IN  /\ st' = r.s
           /\ stHist' = Append(stHist, [p |-> p, n |-> r.n, pos |-> r.pos])
  /\ UNCHANGED <<cfg, procVars, indexVars, logVars>>

\* A read at the position of an appended frame, or at the end of the store.
StoreRead ==
  /\ \E pos \in {h.pos : h \in {stHist[i] : i \in 1..Len(stHist)}} \cup {st.size} :
       st' = storeRead(st, pos).s
  /\ UNCHANGED <<cfg, procVars, stHist, indexVars, logVars>>

StoreNext == StoreAppend \/ StoreRead

SpecStore == StoreInit /\ [][StoreNext]_vars

RECURSIVE FrameSum(_, _)
\* The bytes the first k recorded frames occupy.
FrameSum(h, k) == IF k = 0 THEN 0 ELSE FrameSum(h, k - 1) + lenWidth + Len(h[k].p)

\* C6: the i-th store.Append returns n = 8 + len(b_i) and pos = the sum of the
\* earlier frames' widths, and store.Read(pos_i) returns exactly b_i at any
\* later point, flushed or not.
C6_StoreRoundTrip ==
  \A i \in 1..Len(stHist) :
    /\ stHist[i].n = lenWidth + Len(stHist[i].p)
    /\ stHist[i].pos = FrameSum(stHist, i - 1)
    /\ storeRead(st, stHist[i].pos).err = "nil"
    /\ storeRead(st, stHist[i].pos).b = stHist[i].p

\* Two frames appended, the second partly or wholly still in the write buffer.
C6_Witness ==
  /\ Len(stHist) >= 2
  /\ st.buf # <<>>
  /\ stHist[2].p # stHist[1].p
  /\ stHist[2].pos = lenWidth + Len(stHist[1].p)

(***************************************************************************)
(* The index alone: writes of arbitrary (off, pos) pairs, reads of         *)
(* arbitrary slots, clean close and reopen.                                *)
(***************************************************************************)
IndexSizes == {12, 30, 36}
IndexOffs == {0, 1, 2, W32 - 1}
IndexPoss == {0, 100, 200}
IndexSlots == (-2 .. 3) \cup {W32, W32 + 1, 0 - W32}

IndexInit ==
  /\ \E m \in IndexSizes : cfg = Config(0, m, 0)
  /\ ix = [open |-> TRUE, i |-> newIndex(<<>>, cfg), file |-> <<>>,
           res |-> newIndexRes]
  /\ ixHist = <<>>
  /\ ixRet = NoRet
  /\ st = newStore(<<>>)
  /\ stHist = <<>>
  /\ NoLog
  /\ NoProcs

IndexWrite ==
  /\ ix.open
  /\ \E off \in IndexOffs, pos \in IndexPoss :
       LET r == indexWrite(ix.i, off, pos)
       IN  /\ ix' = [ix EXCEPT !.i = r.i]
           /\ ixHist' = IF r.err = "nil"
                        THEN Append(ixHist, [off |-> off, pos |-> pos])
                        ELSE ixHist
           /\ ixRet' = [op |-> "write", pre |-> ix.i, err |-> r.err]
  /\ UNCHANGED <<cfg, procVars, storeVars, logVars>>

IndexRead ==
  /\ ix.open
  /\ \E slot \in IndexSlots :
       LET r == indexRead(ix.i, slot)
       IN  ixRet' = [op |-> "read", slot |-> slot, out |-> r.out, pos |-> r.pos,
                     err |-> r.err]
  /\ UNCHANGED <<cfg, procVars, storeVars, ix, ixHist, logVars>>

IndexClose ==
  /\ ix.open
  /\ ix' = [open |-> FALSE, i |-> NoIndex.i, file |-> indexClose(ix.i),
            res |-> indexCloseRes(ix.res)]
  /\ ixRet' = [op |-> "close", pre |-> ix.i]
  /\ UNCHANGED <<cfg, procVars, storeVars, ixHist, logVars>>

IndexReopen ==
  /\ ~ix.open
  /\ ix' = [open |-> TRUE, i |-> newIndex(ix.file, cfg), file |-> <<>>,
            res |-> newIndexRes]
  /\ ixRet' = [op |-> "open"]
  /\ UNCHANGED <<cfg, procVars, storeVars, ixHist, logVars>>

IndexNext == IndexWrite \/ IndexRead \/ IndexClose \/ IndexReopen

SpecIndex == IndexInit /\ [][IndexNext]_vars

\* C7: every written slot k reads back (off_k, pos_k); slot -1 reads the most
\* recently written entry, and end-of-file on an empty index.
C7_IndexRoundTrip ==
  ix.open =>
    /\ \A k \in 1..Len(ixHist) :
         indexRead(ix.i, k - 1) = [out |-> ixHist[k].off, pos |-> ixHist[k].pos,
                                   err |-> "nil"]
    /\ ixHist # <<>> =>
         indexRead(ix.i, -1) = [out |-> ixHist[Len(ixHist)].off,
                                pos |-> ixHist[Len(ixHist)].pos, err |-> "nil"]
    /\ ixHist = <<>> => indexRead(ix.i, -1).err = "EOF"

\* Two different entries written, and the last read was of slot -1.
C7_Witness ==
  /\ ix.open
  /\ Len(ixHist) >= 2
  /\ ixHist[1] # ixHist[2]
  /\ ixRet.op = "read" /\ ixRet.slot = -1 /\ ixRet.err = "nil"
  /\ ixRet.out = ixHist[Len(ixHist)].off

\* C8: index.Write succeeds exactly while size + 12 <= MaxIndexBytes, and a
\* failed write returns end-of-file and leaves the size and the entries alone.
C8_IndexCapacity ==
  ixRet.op = "write" =>
    /\ (ixRet.err = "nil") <=> (ixRet.pre.size + entWidth <= cfg.MaxIndexBytes)
    /\ ixRet.err = "nil" => ix.i.size = ixRet.pre.size + entWidth
    /\ ixRet.err # "nil" => ixRet.err = "EOF" /\ ix.i = ixRet.pre

\* MaxIndexBytes = 12: one write made, the index maxed, the next write failed.
C8_Witness ==
  /\ cfg.MaxIndexBytes = 12
  /\ Len(ixHist) = 1
  /\ ix.open /\ indexIsMaxed(ix.i)
  /\ ixRet.op = "write" /\ ixRet.err = "EOF"
  /\ ixRet.pre.size = cfg.MaxIndexBytes

(***************************************************************************)
(* The log: appends, reads, clean close and reopen with the same config.   *)
(***************************************************************************)
MaxAppends == 4
StoreSizes == {20, 200}
LogIndexSizes == {36}
InitialOffsets == {0, 3}
RecValues == {<<>>, <<7, 9>>}
CallerOffsets == {0, 5}
RollPolicies == {"before", "after"}

LogProbes == (0 .. (cfg.InitialOffset + MaxAppends + 1)) \cup {W64 - 1}

Init ==
  /\ \E ms \in StoreSizes, mi \in LogIndexSizes, io \in InitialOffsets :
       cfg = Config(ms, mi, io)
  /\ policy \in RollPolicies
  /\ segments = logOpen({}, cfg)
  /\ dir = {}
  /\ isOpen = TRUE
  /\ hist = <<>>
  /\ fails = 0
  /\ ret = NoRet
  /\ NoStoreVars
  /\ NoIndexVars
  /\ NoProcs

LogAppend ==
  /\ isOpen
  /\ Len(hist) + fails < MaxAppends
  /\ \E value \in RecValues, offset \in CallerOffsets :
       LET r == logAppend(segments, Record(value, offset), policy)
       IN  /\ segments' = r.segs
           /\ hist' = IF r.err = "nil"
                      THEN Append(hist, [value |-> value, off |-> r.off, base |-> r.base])
                      ELSE hist
           /\ fails' = IF r.err = "nil" THEN fails ELSE fails + 1
           /\ ret' = [op |-> "append", off |-> r.off, err |-> r.err,
                      onMaxed |-> r.onMaxed, active |-> (r.at = Len(r.segs)
                                                         \/ r.at + 1 = Len(r.segs)),
                      given |-> offset, afterOpen |-> (ret.op = "open"),
                      expect |-> IF ret.op = "open" THEN ret.next
                                 ELSE nextOffset(segments)]
  /\ UNCHANGED <<cfg, procVars, storeVars, indexVars, dir, isOpen, policy>>

LogRead ==
  /\ isOpen
  /\ \E off \in LogProbes :
       LET r == logRead(segments, off)
       IN  /\ segments' = r.segs
           /\ ret' = [op |-> "read", off |-> off, rec |-> r.rec, err |-> r.err]
  /\ UNCHANGED <<cfg, procVars, storeVars, indexVars, dir, isOpen, policy, hist, fails>>

LogClose ==
  /\ isOpen
  /\ dir' = logClose(segments)
  /\ segments' = <<>>
  /\ isOpen' = FALSE
  /\ ret' = [op |-> "close", next |-> nextOffset(segments)]
  /\ UNCHANGED <<cfg, procVars, storeVars, indexVars, policy, hist, fails>>

LogOpen ==
  /\ ~isOpen
  /\ segments' = logOpen(dir, cfg)
  /\ dir' = {}
  /\ isOpen' = TRUE
  /\ ret' = [op |-> "open", next |-> ret.next]
  /\ UNCHANGED <<cfg, procVars, storeVars, indexVars, policy, hist, fails>>

Next == LogAppend \/ LogRead \/ LogClose \/ LogOpen

Spec == Init /\ [][Next]_vars

\* Every appended record reads back through the log with its payload and the
\* offset it was given.
AllReadable ==
  \A k \in 1..Len(hist) :
    /\ logRead(segments, hist[k].off).err = "nil"
    /\ logRead(segments, hist[k].off).rec = Record(hist[k].value, hist[k].off)

\* C1: on a fresh log the k-th successful append returns InitialOffset + k - 1
\* (k - 1 when InitialOffset = 0), whatever offset the caller's record carried.
C1_DenseOffsets ==
  \A k \in 1..Len(hist) : hist[k].off = cfg.InitialOffset + k - 1

\* The third append on a log with InitialOffset = 0 returned 2 although the
\* caller's record carried offset 5.
C1_Witness ==
  /\ cfg.InitialOffset = 0
  /\ Len(hist) = 3
  /\ ret.op = "append" /\ ret.err = "nil" /\ ret.given = 5 /\ ret.off = 2

\* C2: after any sequence of appends, read(o) of every appended offset o
\* returns the appended payload with offset field o, buffered or flushed.
C2_ReadAfterAppend == isOpen => AllReadable

\* A record with a payload was read back from a log of two segments while the
\* active segment's frames were still in its write buffer.
C2_Witness ==
  /\ isOpen
  /\ Len(segments) >= 2
  /\ activeSegment(segments).store.buf # <<>>
  /\ ret.op = "read" /\ ret.err = "nil"
  /\ ret.rec.value # <<>> /\ ret.rec.offset = ret.off
  /\ \E k \in 1..Len(hist) : hist[k].off = ret.off /\ hist[k].value = ret.rec.value

\* C4: the log's read of an offset outside [lowest_offset, next_offset) fails
\* with OffsetOutOfRange, never with a record or another error.
C4_OutOfRange ==
  isOpen =>
    \A o \in LogProbes :
      (o < lowestOffset(segments) \/ o >= nextOffset(segments)) =>
        logRead(segments, o).err = "OffsetOutOfRange"

\* read(0) on a fresh log failed with OffsetOutOfRange.
C4_Witness ==
  /\ isOpen /\ hist = <<>> /\ cfg.InitialOffset = 0
  /\ ret.op = "read" /\ ret.off = 0 /\ ret.err = "OffsetOutOfRange"

\* C5: after a clean close and a reopen with the same config every appended
\* offset still reads back its record, the log's next offset is the one it had
\* before the close, and the next append returns it.
C5_CloseReopen ==
  /\ ret.op = "open" => /\ nextOffset(segments) = ret.next
                        /\ ret.next = cfg.InitialOffset + Len(hist)
                        /\ AllReadable
  /\ (ret.op = "append" /\ ret.afterOpen) => ret.err = "nil" /\ ret.off = ret.expect

\* Records were appended, the log closed and reopened, and one more appended.
C5_Witness ==
  /\ ret.op = "append" /\ ret.afterOpen /\ ret.err = "nil"
  /\ Len(hist) >= 2
  /\ ret.off = cfg.InitialOffset + Len(hist) - 1
  /\ hist[Len(hist)].base = cfg.InitialOffset

\* C9: the segments are contiguous (each base offset is the previous segment's
\* next offset), a segment is followed by another only when it is maxed, every
\* append went to the active segment and none was attempted on a maxed one;
\* with room for 3 index entries the first three appends land in the first
\* segment and the fourth in a segment whose base offset is 3 past it.
C9_SegmentRoll ==
  /\ isOpen =>
       /\ \A i \in 1..(Len(segments) - 1) :
            /\ segments[i + 1].baseOffset = segments[i].nextOffset
            /\ segmentIsMaxed(segments[i])
       /\ policy = "after" => ~segmentIsMaxed(activeSegment(segments))
  /\ ret.op = "append" => ~ret.onMaxed /\ ret.active /\ ret.err = "nil"
  /\ \A k \in 1..Len(hist) :
       /\ hist[k].base <= hist[k].off
       /\ (cfg.MaxIndexBytes = 36 /\ cfg.MaxStoreBytes = 200) =>
            hist[k].base = cfg.InitialOffset + 3 * ((k - 1) \div 3)

\* MaxIndexBytes = 36, InitialOffset = 0: four appends made, the fourth
\* returned offset 3 from the second segment, whose base offset is 3.
C9_Witness ==
  /\ isOpen /\ cfg.MaxIndexBytes = 36 /\ cfg.MaxStoreBytes = 200
  /\ cfg.InitialOffset = 0
  /\ Len(hist) = 4 /\ hist[3].base = 0 /\ hist[4].base = 3 /\ hist[4].off = 3
  /\ Len(segments) = 2 /\ segments[2].baseOffset = 3 /\ segments[2].nextOffset = 4

(***************************************************************************)
(* One segment on its own: appends made whether or not it is maxed, reads  *)
(* of arbitrary absolute offsets, clean close and reopen.                  *)
(***************************************************************************)
MaxSegAppends == 4
SegIndexSizes == {12, 24}
SegStoreBytes == 200
SegStoreSizes == {12, SegStoreBytes}

seg == segments[1]

SegProbes ==
  {uint64(cfg.InitialOffset - 1), cfg.InitialOffset + W32, cfg.InitialOffset + W32 + 1}
  \cup (cfg.InitialOffset .. (cfg.InitialOffset + 3))

SegInit ==
  /\ \E ms \in SegStoreSizes, mi \in SegIndexSizes, b \in InitialOffsets :
       cfg = Config(ms, mi, b)
  /\ policy = "none"
  /\ segments = <<newSegment(NoFiles, cfg.InitialOffset, cfg)>>
  /\ dir = {}
  /\ isOpen = TRUE
  /\ hist = <<>>
  /\ fails = 0
  /\ ret = NoRet
  /\ NoStoreVars
  /\ NoIndexVars
  /\ NoProcs

SegAppend ==
  /\ isOpen
  /\ Len(hist) + fails < MaxSegAppends
  /\ \E value \in RecValues, offset \in CallerOffsets :
       LET r == segmentAppend(seg, Record(value, offset))
       IN  /\ segments' = <<r.s>>
           /\ hist' = IF r.err = "nil"
                      THEN Append(hist, [value |-> value, off |-> r.off,
                                         base |-> seg.baseOffset])
                      ELSE hist
           /\ fails' = IF r.err = "nil" THEN fails ELSE fails + 1
           /\ ret' = [op |-> "append", off |-> r.off, err |-> r.err,
                      pos |-> seg.store.size, pre |-> seg, given |-> offset]
  /\ UNCHANGED <<cfg, procVars, storeVars, indexVars, dir, isOpen, policy>>

SegRead ==
  /\ isOpen
  /\ \E off \in SegProbes :
       LET r == segmentRead(seg, off)
       IN  /\ segments' = <<r.s>>
           /\ ret' = [op |-> "read", off |-> off, rec |-> r.rec, err |-> r.err]
  /\ UNCHANGED <<cfg, procVars, storeVars, indexVars, dir, isOpen, policy, hist, fails>>

SegClose ==
  /\ isOpen
  /\ dir' = {[base |-> seg.baseOffset, files |-> segmentClose(seg)]}
  /\ segments' = <<>>
  /\ isOpen' = FALSE
  /\ ret' = [op |-> "close", next |-> seg.nextOffset, maxed |-> segmentIsMaxed(seg)]
  /\ UNCHANGED <<cfg, procVars, storeVars, indexVars, policy, hist, fails>>

SegOpen ==
  /\ ~isOpen
  /\ \E f \in dir : segments' = <<newSegment(f.files, f.base, cfg)>>
  /\ dir' = {}
  /\ isOpen' = TRUE
  /\ ret' = [op |-> "open", next |-> ret.next, maxed |-> ret.maxed]
  /\ UNCHANGED <<cfg, procVars, storeVars, indexVars, policy, hist, fails>>

SegNext == SegAppend \/ SegRead \/ SegClose \/ SegOpen

SpecSeg == SegInit /\ [][SegNext]_vars

\* C3 as claimed: segment.Read of every absolute offset below base_offset or
\* at or above next_offset fails with the index's end-of-file.
C3_OutOfRangeIsEOF ==
  isOpen =>
    \A off \in SegProbes :
      (off < seg.baseOffset \/ off >= seg.nextOffset) =>
        segmentRead(seg, off).err = "EOF"

\* C10: when the store append succeeds and the index write fails, next_offset
\* and the index are as before, the frame left in the store is the target of
\* no offset lookup, every appended offset still reads back its record, and
\* successful appends keep receiving consecutive offsets.
C10_FailedAppend ==
  /\ (ret.op = "append" /\ ret.err # "nil") =>
       /\ ret.err = "EOF"
       /\ seg.nextOffset = ret.pre.nextOffset
       /\ seg.index = ret.pre.index
       /\ seg.store.size > ret.pos
       /\ \A off \in SegProbes :
            segmentRead(seg, off).err = "nil" => segmentRead(seg, off).pos # ret.pos
  /\ isOpen =>
       \A k \in 1..Len(hist) :
         /\ segmentRead(seg, hist[k].off).err = "nil"
         /\ segmentRead(seg, hist[k].off).rec = Record(hist[k].value, hist[k].off)
  /\ \A k \in 1..Len(hist) : hist[k].off = cfg.InitialOffset + k - 1
  /\ isOpen => seg.nextOffset = cfg.InitialOffset + Len(hist)

\* Two records appended, then an append whose index write failed, leaving a
\* frame in the store past the last indexed one.
C10_Witness ==
  /\ isOpen /\ Len(hist) = 2 /\ fails >= 1
  /\ ret.op = "append" /\ ret.err = "EOF"
  /\ seg.store.size > ret.pos
  /\ seg.nextOffset = cfg.InitialOffset + 2

RECURSIVE frames(_)
\* The number of whole frames (8-byte length, then that many bytes) in f.
frames(f) ==
  IF Len(f) < lenWidth THEN 0
  ELSE LET L == Uint(SubSeq(f, 1, lenWidth))
       IN  IF lenWidth + L > Len(f) THEN 0
           ELSE 1 + frames(SubSeq(f, lenWidth + L + 1, Len(f)))

\* The frames a store holds, on disk or still buffered.
storeFrames(s) == frames(s.file \o s.buf)

\* C11 as claimed: in every state of a segment, after any mix of successful
\* and failed appends, next_offset - base_offset = index.size / 12 = the
\* number of frames in the store, and base_offset <= next_offset.
C11_CountsEqualFrames ==
  isOpen =>
    /\ seg.nextOffset - seg.baseOffset = seg.index.size \div entWidth
    /\ seg.index.size \div entWidth = storeFrames(seg.store)
    /\ seg.baseOffset <= seg.nextOffset

\* C11 amended: next_offset - base_offset = index.size / 12 = the number of
\* successful appends and base_offset <= next_offset; the store holds that
\* many frames plus one for every append whose index write failed.
C11_CountsAmended ==
  isOpen =>
    /\ seg.nextOffset - seg.baseOffset = seg.index.size \div entWidth
    /\ seg.index.size = entWidth * Len(hist)
    /\ storeFrames(seg.store) = Len(hist) + fails
    /\ seg.baseOffset <= seg.nextOffset

\* A segment with an indexed record and a frame left by a failed append.
C11_Witness ==
  /\ isOpen /\ Len(hist) >= 1 /\ fails >= 1
  /\ storeFrames(seg.store) > seg.index.size \div entWidth
  /\ seg.nextOffset = seg.baseOffset + Len(hist)

\* C17: segment.IsMaxed is true exactly when store.size >= MaxStoreBytes or
\* index.size + 12 > MaxIndexBytes; it is true whenever index.IsMaxed is; an
\* append made while it is false does not fail; once true it stays true,
\* across appends, reads and close/reopen.
C17_IsMaxed ==
  /\ [](isOpen =>
          /\ segmentIsMaxed(seg) <=> (\/ seg.store.size >= cfg.MaxStoreBytes
                                     \/ seg.index.size + entWidth > cfg.MaxIndexBytes)
          /\ indexIsMaxed(seg.index) => segmentIsMaxed(seg))
  /\ []((ret.op = "append" /\ ~segmentIsMaxed(ret.pre)) => ret.err = "nil")
  /\ []((ret.op = "open" /\ ret.maxed) => segmentIsMaxed(seg))
  /\ [][(isOpen /\ isOpen' /\ segmentIsMaxed(seg)) => segmentIsMaxed(seg')]_vars

\* An append made on a segment that was not maxed succeeded and left it maxed
\* by its store's size alone.
C17_Witness ==
  /\ isOpen
  /\ ret.op = "append" /\ ret.err = "nil" /\ ~segmentIsMaxed(ret.pre)
  /\ segmentIsMaxed(seg) /\ ~indexIsMaxed(seg.index)

RECURSIVE encodeEntries(_)
\* The bytes of a tight-packed index file holding the entries h.
encodeEntries(h) ==
  IF h = <<>> THEN <<>>
  ELSE encodeEntries(SubSeq(h, 1, Len(h) - 1))
       \o PutUint(h[Len(h)].off, offWidth) \o PutUint(h[Len(h)].pos, posWidth)

\* C18: while open the index file is MaxIndexBytes long whatever the entry
\* count; after index.Close its length is 12 x the entries written and it holds
\* exactly those entries; reopened, it has the same size and entries.
C18_TightPacked ==
  /\ ix.open => /\ Len(ix.i.mmap) = cfg.MaxIndexBytes
                /\ ix.i.size = entWidth * Len(ixHist)
  /\ (~ix.open /\ ixRet.op = "close") =>
       /\ Len(ix.file) = entWidth * Len(ixHist)
       /\ Len(ix.file) = ixRet.pre.size
       /\ ix.file = encodeEntries(ixHist)
  /\ ixRet.op = "open" =>
       \A k \in 1..Len(ixHist) :
         indexRead(ix.i, k - 1) = [out |-> ixHist[k].off, pos |-> ixHist[k].pos,
                                   err |-> "nil"]

\* An index with one entry and room for more was closed and reopened.
C18_Witness ==
  /\ ixRet.op = "open" /\ ix.open
  /\ Len(ixHist) = 1 /\ cfg.MaxIndexBytes = 36
  /\ ix.i.size = entWidth /\ Len(ix.i.mmap) = 36

\* C19 as claimed: after index.Close the memory map is unmapped and the file
\* descriptor closed, and the map was released before the file was truncated.
C19_Released ==
  (~ix.open /\ ixRet.op = "close") =>
    /\ ~ix.res.mapped
    /\ ~ix.res.fd
    /\ ~ix.res.truncMapped

\* C20 as claimed: index.Read returns end-of-file for every slot when the size
\* is 0, and for every slot other than -1 that is negative or has
\* slot * 12 + 12 > size.
C20_NoEntryIsEOF ==
  ix.open =>
    \A slot \in IndexSlots :
      (\/ ix.i.size = 0
       \/ slot # -1 /\ (slot < 0 \/ slot * entWidth + entWidth > ix.i.size)) =>
        indexRead(ix.i, slot).err = "EOF"

(***************************************************************************)
(* The store under concurrent callers.  Each of Append, Read, ReadAt and   *)
(* Close locks s.mu, runs its statements one at a time and unlocks on      *)
(* return (defer s.mu.Unlock()).  mu is the holder of the mutex, 0 when    *)
(* free; pcs[self] is the caller's position and locals.                    *)
(***************************************************************************)
MaxConcAppends == 2
ConcProcs == {1, 2}
ConcPayloads == {<<1>>, <<2, 3>>}

\* s.mu.Lock() with a fault: the lock is granted while held.
CanLockAlways(m) == TRUE

\* s.mu.Lock() returns only when the mutex is free.
CanLock(m) == m = 0

Idle == [pc |-> "idle", op |-> "none"]

\* The frame at pos of the file f: its length prefix, then its payload.
readFrameAt(f, pos) ==
  LET size == fileReadAt(f, pos, lenWidth)
  IN  IF size.err # "nil" THEN [b |-> <<>>, err |-> size.err]
      ELSE fileReadAt(f, pos + lenWidth, Uint(size.b))

appendsStarted ==
  Len(stHist) + Cardinality({i \in ConcProcs : pcs[i].pc # "idle" /\ pcs[i].op = "append"})

ConcStoreInit ==
  /\ cfg = NoConfig
  /\ st = newStore(<<>>)
  /\ stHist = <<>>
  /\ NoIndexVars
  /\ NoLog
  /\ mu = 0
  /\ lmu = 0
  /\ pcs = [i \in ConcProcs |-> Idle]
  /\ closed = FALSE
  /\ ctx = "live"

\* A caller enters one of the four methods: s.mu.Lock().
StoreLock(self) ==
  /\ pcs[self].pc = "idle"
  /\ ~closed
  /\ CanLock(mu)
  /\ mu' = self
  /\ \/ \E p \in ConcPayloads :
          /\ appendsStarted < MaxConcAppends
          /\ pcs' = [pcs EXCEPT ![self] = [pc |-> "pos", op |-> "append", p |-> p,
                                           entry |-> st.size]]
     \/ \E k \in 1..Len(stHist) :
          pcs' = [pcs EXCEPT ![self] = [pc |-> "flush", op |-> "read",
                                        pos |-> stHist[k].pos, k |-> k]]
     \/ \E k \in 1..Len(stHist) :
          pcs' = [pcs EXCEPT ![self] = [pc |-> "flush", op |-> "readat",
                                        pos |-> stHist[k].pos, k |-> k]]
     \/ pcs' = [pcs EXCEPT ![self] = [pc |-> "flush", op |-> "close"]]
  /\ UNCHANGED <<cfg, storeVars, indexVars, logVars, lmu, closed, ctx>>

\* store.Append: pos = s.size
AppendPos(self) ==
  /\ pcs[self].pc = "pos"
  /\ pcs' = [pcs EXCEPT ![self] = [@ EXCEPT !.pc = "len"] @@ [pos |-> st.size]]
  /\ UNCHANGED <<cfg, storeVars, indexVars, logVars, mu, lmu, closed, ctx>>

\* store.Append: binary.Write(s.buf, enc, uint64(len(p)))
AppendLen(self) ==
  /\ pcs[self].pc = "len"
  /\ st' = bufWrite(st, PutUint(Len(pcs[self].p), lenWidth))
  /\ pcs' = [pcs EXCEPT ![self].pc = "payload"]
  /\ UNCHANGED <<cfg, stHist, indexVars, logVars, mu, lmu, closed, ctx>>

\* store.Append: s.buf.Write(p)
AppendPayload(self) ==
  /\ pcs[self].pc = "payload"
  /\ st' = bufWrite(st, pcs[self].p)
  /\ pcs' = [pcs EXCEPT ![self].pc = "size"]
  /\ UNCHANGED <<cfg, stHist, indexVars, logVars, mu, lmu, closed, ctx>>

\* store.Append: s.size += uint64(w)
AppendSize(self) ==
  /\ pcs[self].pc = "size"
  /\ st' = [st EXCEPT !.size = uint64(st.size + Len(pcs[self].p) + lenWidth)]
  /\ pcs' = [pcs EXCEPT ![self].pc = "unlock"]
  /\ UNCHANGED <<cfg, stHist, indexVars, logVars, mu, lmu, closed, ctx>>

\* store.Read, store.ReadAt, store.Close: s.buf.Flush(); Close then closes
\* the file.
StoreFlush(self) ==
  /\ pcs[self].pc = "flush"
  /\ st' = bufFlush(st)
  /\ closed' = (closed \/ pcs[self].op = "close")
  /\ pcs' = [pcs EXCEPT ![self].pc = IF pcs[self].op = "close" THEN "unlock" ELSE "readat"]
  /\ UNCHANGED <<cfg, stHist, indexVars, logVars, mu, lmu, ctx>>

\* store.Read: the two positional reads; store.ReadAt: one positional read
\* (here of the 8 bytes at pos).
StoreReadAt(self) ==
  /\ pcs[self].pc = "readat"
  /\ pcs' = [pcs EXCEPT ![self] =
               [@ EXCEPT !.pc = "unlock"]
               @@ [out |-> IF pcs[self].op = "read" THEN readFrameAt(st.file, pcs[self].pos)
                           ELSE fileReadAt(st.file, pcs[self].pos, lenWidth)]]
  /\ UNCHANGED <<cfg, storeVars, indexVars, logVars, mu, lmu, closed, ctx>>

\* The method returns: the deferred s.mu.Unlock().
StoreUnlock(self) ==
  /\ pcs[self].pc = "unlock"
  /\ mu' = 0
  /\ stHist' = IF pcs[self].op = "append"
               THEN Append(stHist, [p |-> pcs[self].p, n |-> Len(pcs[self].p) + lenWidth,
                                    pos |-> pcs[self].pos, entry |-> pcs[self].entry])
               ELSE stHist
  /\ pcs' = [pcs EXCEPT ![self].pc = "idle"]
  /\ UNCHANGED <<cfg, st, indexVars, logVars, lmu, closed, ctx>>

ConcStoreNext ==
  \E self \in ConcProcs :
    \/ StoreLock(self)
    \/ AppendPos(self)
    \/ AppendLen(self)
    \/ AppendPayload(self)
    \/ AppendSize(self)
    \/ StoreFlush(self)
    \/ StoreReadAt(self)
    \/ StoreUnlock(self)

SpecStoreConc == ConcStoreInit /\ [][ConcStoreNext]_vars

RECURSIVE frameBytes(_)
\* The bytes of the recorded frames, in order.
frameBytes(h) ==
  IF h = <<>> THEN <<>>
  ELSE frameBytes(SubSeq(h, 1, Len(h) - 1))
       \o PutUint(Len(h[Len(h)].p), lenWidth) \o h[Len(h)].p

\* C16: at most one caller is inside Append, Read, ReadAt or Close; every
\* append returned the size at its critical-section entry, which is the sum of
\* the earlier frames' widths, so positions are distinct; when no call is in
\* flight the store's bytes are the frames, whole and in order, and its size
\* their total width; a completed Read returned the frame's payload.
C16_StoreSerialized ==
  /\ Cardinality({i \in ConcProcs : pcs[i].pc # "idle"}) <= 1
  /\ \A i \in ConcProcs : pcs[i].pc # "idle" <=> mu = i
  /\ \A k \in 1..Len(stHist) :
       /\ stHist[k].pos = stHist[k].entry
       /\ stHist[k].pos = FrameSum(stHist, k - 1)
       /\ \A j \in 1..Len(stHist) : j # k => stHist[j].pos # stHist[k].pos
  /\ (\A i \in ConcProcs : pcs[i].pc = "idle") =>
       /\ st.file \o st.buf = frameBytes(stHist)
       /\ st.size = FrameSum(stHist, Len(stHist))
  /\ \A i \in ConcProcs :
       (pcs[i].pc = "idle" /\ pcs[i].op = "read") =>
         pcs[i].out = [b |-> stHist[pcs[i].k].p, err |-> "nil"]

\* Two appends by different callers completed, the second while the first
\* caller was idle again, giving different positions.
C16_Witness ==
  /\ Len(stHist) = 2
  /\ stHist[1].p # stHist[2].p
  /\ stHist[2].pos = lenWidth + Len(stHist[1].p)
  /\ \E i \in ConcProcs : pcs[i].pc = "idle" /\ pcs[i].op = "read" /\ pcs[i].k = 2
  /\ \E i \in ConcProcs : pcs[i].op = "append"

(***************************************************************************)
(* Concurrent Produce and Consume calls.  grpcServer.Produce calls the     *)
(* log's append, which holds the log's lock (lmu, 0 when free) around the  *)
(* roll check and the active segment's Append; segment.Append and          *)
(* index.Write run one statement at a time, store.Append as one step under *)
(* the store's mutex.  grpcServer.Consume calls the log's read, which      *)
(* routes to a segment and runs segment.Read without the log's lock.       *)
(***************************************************************************)
MaxProdAppends == 2
ProdIndexSizes == {24}
ProdStoreBytes == 200

\* The log's lock with a fault: it is granted while held.
CanLogLockAlways(m) == TRUE

\* The log's append enters only when no other append is in flight.
CanLogLock(m) == m = 0

appending == {i \in ConcProcs : pcs[i].op = "append" /\ pcs[i].pc # "idle"}

ProdInit ==
  /\ \E mi \in ProdIndexSizes, io \in InitialOffsets : cfg = Config(ProdStoreBytes, mi, io)
  /\ policy \in RollPolicies
  /\ segments = logOpen({}, cfg)
  /\ dir = {}
  /\ isOpen = TRUE
  /\ hist = <<>>
  /\ fails = 0
  /\ ret = NoRet
  /\ NoStoreVars
  /\ NoIndexVars
  /\ mu = 0
  /\ lmu = 0
  /\ pcs = [i \in ConcProcs |-> Idle]
  /\ closed = FALSE
  /\ ctx = "live"

\* Produce: the log's append takes the lock, rolls a maxed active segment
\* (policy "before") and hands the record to the active segment.
ProduceLock(self) ==
  /\ pcs[self].pc = "idle"
  /\ Len(hist) + fails + Cardinality(appending) < MaxProdAppends
  /\ CanLogLock(lmu)
  /\ lmu' = self
  /\ segments' = rollBefore(segments, policy)
  /\ \E value \in RecValues, offset \in CallerOffsets :
       pcs' = [pcs EXCEPT ![self] = [pc |-> "stamp", op |-> "append",
                                     record |-> Record(value, offset),
                                     s |-> Len(segments')]]
  /\ UNCHANGED <<cfg, storeVars, indexVars, dir, isOpen, policy, hist, fails, ret,
                 mu, closed, ctx>>

\* segment.Append: cur := s.nextOffset; record.Offset = cur
SegStamp(self) ==
  /\ pcs[self].pc = "stamp"
  /\ LET cur == segments[pcs[self].s].nextOffset
     IN  pcs' = [pcs EXCEPT ![self] =
                   [@ EXCEPT !.pc = "store", !.record = [@ EXCEPT !.offset = cur]]
                   @@ [cur |-> cur]]
  /\ UNCHANGED <<cfg, storeVars, indexVars, logVars, mu, lmu, closed, ctx>>

\* segment.Append: p := proto.Marshal(record); _, pos := s.store.Append(p)
SegStore(self) ==
  /\ pcs[self].pc = "store"
  /\ LET a == storeAppend(segments[pcs[self].s].store, Marshal(pcs[self].record))
     IN  /\ segments' = [segments EXCEPT ![pcs[self].s].store = a.s]
         /\ pcs' = [pcs EXCEPT ![self] = [@ EXCEPT !.pc = "ixmaxed"] @@ [pos |-> a.pos]]
  /\ UNCHANGED <<cfg, storeVars, indexVars, dir, isOpen, policy, hist, fails, ret,
                 mu, lmu, closed, ctx>>

\* segment.Append evaluates uint32(s.nextOffset - baseOffset); index.Write:
\* if i.IsMaxed() { return io.EOF }, and segment.Append returns the error.
IxMaxed(self) ==
  /\ pcs[self].pc = "ixmaxed"
  /\ LET s == segments[pcs[self].s]
     IN  pcs' = [pcs EXCEPT ![self] =
                   [@ EXCEPT !.pc = IF indexIsMaxed(s.index) THEN "unlock" ELSE "ixoff"]
                   @@ [rel |-> uint32(uint64(s.nextOffset - s.baseOffset)),
                       err |-> IF indexIsMaxed(s.index) THEN "EOF" ELSE "nil"]]
  /\ UNCHANGED <<cfg, storeVars, indexVars, logVars, mu, lmu, closed, ctx>>

\* index.Write: enc.PutUint32(i.mmap[i.size:i.size+offWidth], off)
IxPutOff(self) ==
  /\ pcs[self].pc = "ixoff"
  /\ LET i == segments[pcs[self].s].index
     IN  /\ segments' = [segments EXCEPT ![pcs[self].s].index.mmap =
                           mmapPut(i.mmap, i.size, PutUint(pcs[self].rel, offWidth))]
         /\ pcs' = [pcs EXCEPT ![self] = [@ EXCEPT !.pc = "ixpos"]
                                         @@ [slot |-> i.size \div entWidth]]
  /\ UNCHANGED <<cfg, storeVars, indexVars, dir, isOpen, policy, hist, fails, ret,
                 mu, lmu, closed, ctx>>

\* index.Write: enc.PutUint64(i.mmap[i.size+offWidth:i.size+entWidth], pos)
IxPutPos(self) ==
  /\ pcs[self].pc = "ixpos"
  /\ LET i == segments[pcs[self].s].index
     IN  segments' = [segments EXCEPT ![pcs[self].s].index.mmap =
                        mmapPut(i.mmap, i.size + offWidth, PutUint(pcs[self].pos, posWidth))]
  /\ pcs' = [pcs EXCEPT ![self].pc = "ixsize"]
  /\ UNCHANGED <<cfg, storeVars, indexVars, dir, isOpen, policy, hist, fails, ret,
                 mu, lmu, closed, ctx>>

\* index.Write: i.size += uint64(entWidth)
IxSize(self) ==
  /\ pcs[self].pc = "ixsize"
  /\ segments' = [segments EXCEPT ![pcs[self].s].index.size = @ + entWidth]
  /\ pcs' = [pcs EXCEPT ![self].pc = "next"]
  /\ UNCHANGED <<cfg, storeVars, indexVars, dir, isOpen, policy, hist, fails, ret,
                 mu, lmu, closed, ctx>>

\* segment.Append: s.nextOffset++; return cur, nil.  hist records the offset
\* returned, the slot written and the record as stamped.
SegNextOffset(self) ==
  /\ pcs[self].pc = "next"
  /\ segments' = [segments EXCEPT ![pcs[self].s].nextOffset = uint64(@ + 1)]
  /\ hist' = Append(hist, [value |-> pcs[self].record.value, off |-> pcs[self].cur,
                           base |-> segments[pcs[self].s].baseOffset,
                           slot |-> pcs[self].slot, s |-> pcs[self].s,
                           by |-> self])
  /\ pcs' = [pcs EXCEPT ![self].pc = "unlock"]
  /\ UNCHANGED <<cfg, storeVars, indexVars, dir, isOpen, policy, fails, ret,
                 mu, lmu, closed, ctx>>

\* The log's append returns: a maxed active segment is rolled (policy
\* "after"), the lock is released and Produce answers with the offset.
ProduceUnlock(self) ==
  /\ pcs[self].pc = "unlock"
  /\ pcs[self].op = "append"
  /\ lmu' = 0
  /\ segments' = IF pcs[self].err = "nil" THEN rollAfter(segments, policy) ELSE segments
  /\ fails' = IF pcs[self].err = "nil" THEN fails ELSE fails + 1
  /\ pcs' = [pcs EXCEPT ![self].pc = "idle"]
  /\ UNCHANGED <<cfg, storeVars, indexVars, dir, isOpen, policy, hist, ret,
                 mu, closed, ctx>>

\* The segment the log's read asks: the one whose range covers the offset,
\* 0 when there is none.
routeSegment(segs, off) ==
  LET cover == {i \in 1..Len(segs) :
                  segs[i].baseOffset <= off /\ off < segs[i].nextOffset}
  IN  IF cover = {} THEN 0 ELSE CHOOSE i \in cover : \A j \in cover : i <= j

\* An append is between its first and its last write to an index.
midIndexWrite == \E i \in ConcProcs : pcs[i].pc \in {"ixpos", "ixsize", "next"}

\* Consume: the log's read routes the offset to a segment, or answers
\* OffsetOutOfRange.  limit is the log's next offset as the read starts.
ConsumeStart(self) ==
  /\ pcs[self].pc = "idle"
  /\ \E off \in lowestOffset(segments)..nextOffset(segments) :
       LET i == routeSegment(segments, off)
       IN  pcs' = [pcs EXCEPT ![self] =
                     [pc |-> IF i = 0 THEN "idle" ELSE "ixempty", op |-> "read",
                      off |-> off, s |-> i, limit |-> nextOffset(segments),
                      mid |-> FALSE,
                      out |-> [rec |-> NoRecord,
                               err |-> IF i = 0 THEN "OffsetOutOfRange" ELSE "nil"]]]
  /\ UNCHANGED <<cfg, storeVars, indexVars, logVars, mu, lmu, closed, ctx>>

\* index.Read: if i.size == 0 { return 0, 0, io.EOF }
IxReadEmpty(self) ==
  /\ pcs[self].pc = "ixempty"
  /\ pcs' = [pcs EXCEPT ![self] =
               IF segments[pcs[self].s].index.size = 0
               THEN [@ EXCEPT !.pc = "idle", !.out.err = "EOF"]
               ELSE [@ EXCEPT !.pc = "ixbound"]]
  /\ UNCHANGED <<cfg, storeVars, indexVars, logVars, mu, lmu, closed, ctx>>

\* index.Read: out = uint32(off); if i.size < startingPos+entWidth { io.EOF }
IxReadBound(self) ==
  /\ pcs[self].pc = "ixbound"
  /\ LET s    == segments[pcs[self].s]
         off  == int64(uint64(pcs[self].off - s.baseOffset))
         slot == IF off = -1 THEN uint32((s.index.size \div entWidth) - 1) ELSE uint32(off)
     IN  pcs' = [pcs EXCEPT ![self] =
                   IF s.index.size < slot * entWidth + entWidth
                   THEN [@ EXCEPT !.pc = "idle", !.out.err = "EOF"]
                   ELSE [@ EXCEPT !.pc = "ixentry"] @@ [slot |-> slot]]
  /\ UNCHANGED <<cfg, storeVars, indexVars, logVars, mu, lmu, closed, ctx>>

\* index.Read: pos = enc.Uint64(i.mmap[startingPos+offWidth : startingPos+entWidth])
IxReadEntry(self) ==
  /\ pcs[self].pc = "ixentry"
  /\ LET m  == segments[pcs[self].s].index.mmap
         at == pcs[self].slot * entWidth
     IN  pcs' = [pcs EXCEPT ![self] =
                   [@ EXCEPT !.pc = "stread", !.mid = midIndexWrite]
                   @@ [pos |-> Uint(SubSeq(m, at + offWidth + 1, at + entWidth))]]
  /\ UNCHANGED <<cfg, storeVars, indexVars, logVars, mu, lmu, closed, ctx>>

\* segment.Read: p := s.store.Read(pos); proto.Unmarshal(p, record)
SegStoreRead(self) ==
  /\ pcs[self].pc = "stread"
  /\ LET p == storeRead(segments[pcs[self].s].store, pcs[self].pos)
     IN  /\ segments' = [segments EXCEPT ![pcs[self].s].store = p.s]
         /\ pcs' = [pcs EXCEPT ![self] =
                      [@ EXCEPT !.pc = "idle",
                                !.out = IF p.err # "nil" THEN [rec |-> NoRecord, err |-> p.err]
                                        ELSE Unmarshal(p.b)]]
  /\ UNCHANGED <<cfg, storeVars, indexVars, dir, isOpen, policy, hist, fails, ret,
                 mu, lmu, closed, ctx>>

ProdNext ==
  \E self \in ConcProcs :
    \/ ProduceLock(self)
    \/ SegStamp(self)
    \/ SegStore(self)
    \/ IxMaxed(self)
    \/ IxPutOff(self)
    \/ IxPutPos(self)
    \/ IxSize(self)
    \/ SegNextOffset(self)
    \/ ProduceUnlock(self)
    \/ ConsumeStart(self)
    \/ IxReadEmpty(self)
    \/ IxReadBound(self)
    \/ IxReadEntry(self)
    \/ SegStoreRead(self)

SpecProd == ProdInit /\ [][ProdNext]_vars

\* C14: at most one append is in flight; the offsets Produce calls received
\* are pairwise distinct, as are the index slots they wrote, each at slot
\* offset - base of its segment; the log's next offset has advanced from the
\* initial offset by the number of successful appends.
C14_SingleWriter ==
  /\ Cardinality(appending) <= 1
  /\ \A j, k \in 1..Len(hist) :
       j # k => /\ hist[j].off # hist[k].off
                /\ <<hist[j].s, hist[j].slot>> # <<hist[k].s, hist[k].slot>>
  /\ \A k \in 1..Len(hist) : hist[k].slot = hist[k].off - hist[k].base
  /\ nextOffset(segments) = cfg.InitialOffset + Len(hist)

\* Every allowed append is done and has returned, and both callers have
\* appended.
C14_Witness ==
  /\ Len(hist) = MaxProdAppends
  /\ \E j, k \in 1..Len(hist) : hist[j].by # hist[k].by
  /\ \A i \in ConcProcs : pcs[i].pc = "idle"

\* C15: a read of an offset below the log's next offset at the time the read
\* started returns, however its steps interleave with an append, the record
\* appended at that offset, with no error.
C15_ReadDuringAppend ==
  \A i \in ConcProcs :
    (pcs[i].op = "read" /\ pcs[i].pc = "idle" /\ pcs[i].off < pcs[i].limit) =>
      /\ pcs[i].out.err = "nil"
      /\ \E k \in 1..Len(hist) :
           /\ hist[k].off = pcs[i].off
           /\ pcs[i].out.rec = Record(hist[k].value, hist[k].off)

\* A read completed whose index entry was fetched while an append was between
\* its writes to the same segment's index.
C15_Witness ==
  \E i \in ConcProcs :
    /\ pcs[i].op = "read" /\ pcs[i].pc = "idle" /\ pcs[i].off < pcs[i].limit
    /\ pcs[i].mid
    /\ pcs[i].out.err = "nil"
    /\ \E j \in ConcProcs : j # i /\ pcs[j].op = "append" /\ pcs[j].s = pcs[i].s

(***************************************************************************)
(* grpcServer.ConsumeStream.  The handler loops: when the stream's context *)
(* is done it returns nil; otherwise it consumes req.Offset, sends the     *)
(* record and advances, continues on ErrOffsetOutOfRange and returns any   *)
(* other error.  pcs is the handler: its position, req.Offset, the records *)
(* sent, its result, and (ghost) the outcome of its last read, the offset  *)
(* it started at, whether it has met ErrOffsetOutOfRange, and the sends    *)
(* made after the context was cancelled.  The                              *)
(* client may cancel the context at any time; Produce calls run beside it. *)
(* A read or a send may fail with an I/O error.                            *)
(***************************************************************************)
MaxStreamAppends == 2
StreamOffsets == 0..(3 + MaxStreamAppends)

\* The switch on Consume's error with a fault: ErrOffsetOutOfRange is returned
\* like any other error.
onConsumeAbort(err) == IF err = "nil" THEN "send" ELSE "return"

\* switch err.(type): nil falls through to Send, ErrOffsetOutOfRange continues
\* the loop, any other error is returned.
onConsume(err) ==
  IF err = "nil" THEN "send"
  ELSE IF err = "OffsetOutOfRange" THEN "continue"
  ELSE "return"

\* req.Offset++ with a fault: the offset is left as it is.
advanceSame(off) == off

\* req.Offset++
advance(off) == uint64(off + 1)

StreamInit ==
  /\ \E mi \in ProdIndexSizes, io \in InitialOffsets : cfg = Config(ProdStoreBytes, mi, io)
  /\ policy \in RollPolicies
  /\ segments = logOpen({}, cfg)
  /\ dir = {}
  /\ isOpen = TRUE
  /\ hist = <<>>
  /\ fails = 0
  /\ ret = NoRet
  /\ NoStoreVars
  /\ NoIndexVars
  /\ mu = 0
  /\ lmu = 0
  /\ closed = FALSE
  /\ ctx = "live"
  /\ \E start \in {cfg.InitialOffset, cfg.InitialOffset + 1} :
       pcs = [pc |-> "select", req |-> start, start |-> start, sent |-> <<>>,
              res |-> NoRecord, result |-> "running", last |-> "none", after |-> 0,
              waited |-> FALSE]

\* grpcServer.Produce: the log's append, and its answer.
StreamProduce ==
  /\ Len(hist) + fails < MaxStreamAppends
  /\ \E value \in RecValues, offset \in CallerOffsets :
       LET r == logAppend(segments, Record(value, offset), policy)
       IN  /\ segments' = r.segs
           /\ hist' = IF r.err = "nil"
                      THEN Append(hist, [value |-> value, off |-> r.off, base |-> r.base])
                      ELSE hist
           /\ fails' = IF r.err = "nil" THEN fails ELSE fails + 1
  /\ UNCHANGED <<cfg, procVars, storeVars, indexVars, dir, isOpen, policy, ret>>

\* The client cancels the stream's context.
StreamCancel ==
  /\ ctx = "live"
  /\ ctx' = "cancelled"
  /\ UNCHANGED <<cfg, storeVars, indexVars, logVars, mu, lmu, pcs, closed>>

\* select { case <-stream.Context().Done(): return nil; default: ... }
StreamSelect ==
  /\ pcs.pc = "select"
  /\ pcs' = IF ctx = "cancelled"
            THEN [pcs EXCEPT !.pc = "done", !.result = "nil", !.last = "none"]
            ELSE [pcs EXCEPT !.pc = "consume", !.last = "none"]
  /\ UNCHANGED <<cfg, storeVars, indexVars, logVars, mu, lmu, closed, ctx>>

\* What the log's read answers, by the appends made: the record appended at
\* the offset, or OffsetOutOfRange.
commitLogRead(h, off) ==
  IF \E k \in 1..Len(h) : h[k].off = off
  THEN [rec |-> Record(h[CHOOSE k \in 1..Len(h) : h[k].off = off].value, off),
        err |-> "nil"]
  ELSE [rec |-> NoRecord, err |-> "OffsetOutOfRange"]

\* The segments after the log's read of off: the store of the segment asked
\* has flushed its buffer.
flushedBy(segs, off) ==
  IF routeSegment(segs, off) = 0 THEN segs
  ELSE [segs EXCEPT ![routeSegment(segs, off)].store = bufFlush(@)]

\* In the current state logRead answers every offset as commitLogRead and
\* flushedBy say.
ReadAgrees ==
  \A off \in StreamOffsets :
    /\ logRead(segments, off).rec = commitLogRead(hist, off).rec
    /\ logRead(segments, off).err = commitLogRead(hist, off).err
    /\ logRead(segments, off).segs = flushedBy(segments, off)

\* res, err := s.Consume(stream.Context(), req) and the switch on err.  The
\* log's read is taken through commitLogRead and flushedBy, which ReadAgrees
\* shows equal to logRead in every reachable state.
StreamConsume ==
  /\ pcs.pc = "consume"
  /\ \E fault \in BOOLEAN, r \in {commitLogRead(hist, pcs.req)} :
       LET err == IF fault THEN "EIO" ELSE r.err
           to  == onConsume(err)
       IN  /\ segments' = IF fault THEN segments ELSE flushedBy(segments, pcs.req)
           /\ pcs' = [pcs EXCEPT !.last = err,
                                 !.waited = (@ \/ err = "OffsetOutOfRange"),
                                 !.res = IF err = "nil" THEN r.rec ELSE NoRecord,
                                 !.pc = IF to = "send" THEN "send"
                                        ELSE IF to = "continue" THEN "select" ELSE "done",
                                 !.result = IF to = "return" THEN err ELSE @]
  /\ UNCHANGED <<cfg, storeVars, indexVars, dir, isOpen, policy, hist, fails, ret,
                 mu, lmu, closed, ctx>>

\* if err = stream.Send(res); err != nil { return err }; req.Offset++
StreamSend ==
  /\ pcs.pc = "send"
  /\ \E fault \in BOOLEAN :
       pcs' = IF fault
              THEN [pcs EXCEPT !.pc = "done", !.result = "SendErr", !.last = "SendErr"]
              ELSE [pcs EXCEPT !.pc = "select", !.sent = Append(@, pcs.res),
                               !.req = advance(@), !.last = "sent",
                               !.after = IF ctx = "cancelled" THEN @ + 1 ELSE @]
  /\ UNCHANGED <<cfg, storeVars, indexVars, logVars, mu, lmu, closed, ctx>>

StreamStep == StreamSelect \/ StreamConsume \/ StreamSend

StreamNext == StreamProduce \/ StreamCancel \/ StreamSelect \/ StreamConsume \/ StreamSend

SpecStream == StreamInit /\ [][StreamNext]_vars

\* The handler's goroutine keeps being scheduled while it has a step to take.
SpecStreamFair == StreamInit /\ [][StreamNext]_vars /\ WF_vars(StreamStep)

sentOffsets == {pcs.sent[k].offset : k \in 1..Len(pcs.sent)}

\* C12: the records sent are those appended at start, start+1, ... in that
\* order, and req.Offset is start plus the number sent; a read answering
\* OffsetOutOfRange leaves the handler running, back at the select with the
\* same offset; any other read error, or a send error, ends the stream with
\* that error; nil is returned only on a cancelled context.  The log's read
\* answers as the handler's step takes it to (ReadAgrees).
C12_StreamOrder ==
  /\ \A k \in 1..Len(pcs.sent) :
       /\ pcs.sent[k].offset = pcs.start + k - 1
       /\ \E j \in 1..Len(hist) :
            /\ hist[j].off = pcs.sent[k].offset
            /\ pcs.sent[k] = Record(hist[j].value, hist[j].off)
  /\ pcs.req = pcs.start + Len(pcs.sent)
  /\ ReadAgrees
  /\ pcs.last = "OffsetOutOfRange" => (pcs.pc = "select" /\ pcs.result = "running")
  /\ pcs.last = "EIO" => (pcs.pc = "done" /\ pcs.result = "EIO")
  /\ pcs.last = "SendErr" => (pcs.pc = "done" /\ pcs.result = "SendErr")
  /\ pcs.result = "nil" => ctx = "cancelled"
  /\ pcs.pc = "done" <=> pcs.result # "running"

\* The stream met OffsetOutOfRange, went on, and has sent two records.
C12_Witness ==
  /\ pcs.waited
  /\ Len(pcs.sent) = 2
  /\ pcs.result = "running"

\* Once a record is appended at the offset the stream asks for, it is sent,
\* unless the context is cancelled or a read or send error ends the stream.
StreamDelivers ==
  \A o \in StreamOffsets :
    (pcs.req = o /\ o < nextOffset(segments))
      ~> (o \in sentOffsets \/ ctx = "cancelled" \/ pcs.result \in {"EIO", "SendErr"})

\* Once the context is cancelled the handler returns.
StreamStops == (ctx = "cancelled") ~> (pcs.pc = "done")

\* C13 as claimed: new data is eventually delivered, and once the context is
\* cancelled the handler eventually returns and no further record is sent.
C13_NoSendAfterCancel ==
  /\ StreamDelivers
  /\ StreamStops
  /\ [][ctx = "cancelled" => pcs'.sent = pcs.sent]_vars

\* C13 amended: new data is eventually delivered; once the context is
\* cancelled the handler eventually returns, with nil or with the error of a
\* failed read or send, having sent at most one record after the cancellation.
C13_StreamLive ==
  /\ StreamDelivers
  /\ StreamStops
  /\ [](pcs.after <= 1)
  /\ [](pcs.pc = "done" => pcs.result \in {"nil", "EIO", "SendErr"})

\* The stream waited at an offset, sent it once it was appended, sent one more
\* record after the cancellation and returned nil.
C13_Witness ==
  /\ pcs.waited
  /\ Len(pcs.sent) >= 1
  /\ ctx = "cancelled"
  /\ pcs.after = 1
  /\ pcs.result = "nil"

====
